---- MODULE Spec2Model ----
(***************************************************************************)
(* A model of plugins/oculus/src/OculusHelpers.cpp:                        *)
(*   - the session reference counting (acquireOculusSession,               *)
(*     releaseOculusSession) over the globals refCount and session,        *)
(*   - the swap chain life cycle of SwapFramebufferWrapper,                *)
(*   - the controller pose correction ovrControllerPoseToHandPose.         *)
(*                                                                         *)
(* Arithmetic.  The pose correction works on glm floats.  Every angle the  *)
(* code uses is a multiple of PI/4, so every quaternion component is a     *)
(* dyadic multiple of a polynomial in x = 2*cos(PI/8), which satisfies     *)
(* x^4 - 4x^2 + 2 = 0.  A number is modelled exactly as                    *)
(*      <<a0, a1, a2, a3, d>>  =  (a0 + a1 x + a2 x^2 + a3 x^3) / 2^d      *)
(* in lowest terms (d minimal), so equal numbers are equal tuples.         *)
(* Lengths are counted in units of 1/10 mm (0.0762 m = 762).  Angles are   *)
(* counted in units of PI/4.                                               *)
(***************************************************************************)
EXTENDS Integers, Sequences, FiniteSets, TLC

\* ------------------------------------------------------------------------
\* Exact numbers
\* ------------------------------------------------------------------------

Even(n) == n % 2 = 0

RECURSIVE Reduce(_)
Reduce(a) ==
    IF a[5] > 0 /\ Even(a[1]) /\ Even(a[2]) /\ Even(a[3]) /\ Even(a[4])
    THEN Reduce(<<a[1] \div 2, a[2] \div 2, a[3] \div 2, a[4] \div 2, a[5] - 1>>)
    ELSE a

RECURSIVE Pow2(_)
Pow2(n) == IF n = 0 THEN 1 ELSE 2 * Pow2(n - 1)

Int2Num(n) == <<n, 0, 0, 0, 0>>

Zero == Int2Num(0)

One == Int2Num(1)

\* a with its numerator scaled to the denominator 2^d (d >= a[5])
Lift(a, d) ==
    LET k == Pow2(d - a[5]) IN <<a[1] * k, a[2] * k, a[3] * k, a[4] * k, d>>

Max(m, n) == IF m >= n THEN m ELSE n

NAdd(a, b) ==
    LET d == Max(a[5], b[5])
        p == Lift(a, d)
        q == Lift(b, d)
    IN  Reduce(<<p[1] + q[1], p[2] + q[2], p[3] + q[3], p[4] + q[4], d>>)

NNeg(a) == <<-a[1], -a[2], -a[3], -a[4], a[5]>>

NSub(a, b) == NAdd(a, NNeg(b))

\* polynomial product, reduced by x^4 = 4x^2 - 2, x^5 = 4x^3 - 2x,
\* x^6 = 14x^2 - 8
NMul(a, b) ==
    LET c0 == a[1] * b[1]
        c1 == a[1] * b[2] + a[2] * b[1]
        c2 == a[1] * b[3] + a[2] * b[2] + a[3] * b[1]
        c3 == a[1] * b[4] + a[2] * b[3] + a[3] * b[2] + a[4] * b[1]
        c4 == a[2] * b[4] + a[3] * b[3] + a[4] * b[2]
        c5 == a[3] * b[4] + a[4] * b[3]
        c6 == a[4] * b[4]
    IN  Reduce(<<c0 - 2 * c4 - 8 * c6,
                 c1 - 2 * c5,
                 c2 + 4 * c4 + 14 * c6,
                 c3 + 4 * c5,
                 a[5] + b[5]>>)

Abs(n) == IF n < 0 THEN -n ELSE n

RECURSIVE IsPow2(_)
IsPow2(n) == n = 1 \/ (n > 1 /\ Even(n) /\ IsPow2(n \div 2))

RECURSIVE Log2(_)
Log2(n) == IF n <= 1 THEN 0 ELSE 1 + Log2(n \div 2)

\* a / b for a divisor b = s * 2^e (s a sign, e any integer).  Every divisor
\* the code meets is one: the literal 2.0f and the squared norm 1 of a unit
\* quaternion.  No other divisor is modelled (the CASE has no other arm).
NDiv(a, b) ==
    CASE b[2] = 0 /\ b[3] = 0 /\ b[4] = 0 /\ IsPow2(Abs(b[1])) ->
        LET s == IF b[1] < 0 THEN -1 ELSE 1
            e == Log2(Abs(b[1])) - b[5]
            k == IF e < 0 THEN Pow2(-e) ELSE 1
            d == IF e < 0 THEN a[5] ELSE a[5] + e
        IN  Reduce(<<s * k * a[1], s * k * a[2], s * k * a[3], s * k * a[4], d>>)

\* cos(k * PI/8), from 2cos(0) = 2, 2cos(t) = x, 2cos(2t) = x^2 - 2,
\* 2cos(3t) = x^3 - 3x, 2cos(4t) = 0 and the symmetries of the cosine
CosEighth(k) ==
    LET r == k % 16
        m == IF r > 8 THEN 16 - r ELSE r
        p == IF m > 4 THEN 8 - m ELSE m
        c == CASE p = 0 -> <<2, 0, 0, 0, 1>>
               [] p = 1 -> <<0, 1, 0, 0, 1>>
               [] p = 2 -> <<-2, 0, 1, 0, 1>>
               [] p = 3 -> <<0, -3, 0, 1, 1>>
               [] p = 4 -> <<0, 0, 0, 0, 1>>
    IN  Reduce(IF m > 4 THEN NNeg(c) ELSE c)

SinEighth(k) == CosEighth(k - 4)

\* ------------------------------------------------------------------------
\* glm: vec3 is <<x, y, z>>, quat is <<w, x, y, z>>
\* ------------------------------------------------------------------------

VAdd(u, v) == <<NAdd(u[1], v[1]), NAdd(u[2], v[2]), NAdd(u[3], v[3])>>

\* vec3 * vec3 multiplies component by component
VMul(u, v) == <<NMul(u[1], v[1]), NMul(u[2], v[2]), NMul(u[3], v[3])>>

VScale(v, a) == <<NMul(v[1], a), NMul(v[2], a), NMul(v[3], a)>>

Cross(u, v) ==
    <<NSub(NMul(u[2], v[3]), NMul(v[2], u[3])),
      NSub(NMul(u[3], v[1]), NMul(v[3], u[1])),
      NSub(NMul(u[1], v[2]), NMul(v[1], u[2]))>>

\* glm::angleAxis(angle, axis), the angle in units of PI/4:
\* w = cos(angle / 2), (x, y, z) = axis * sin(angle / 2)
angleAxis(angle, axis) ==
    LET s == SinEighth(angle)
    IN  <<CosEighth(angle), NMul(axis[1], s), NMul(axis[2], s), NMul(axis[3], s)>>

\* glm::quat operator*(p, q)
QMul(p, q) ==
    <<NSub(NSub(NSub(NMul(p[1], q[1]), NMul(p[2], q[2])), NMul(p[3], q[3])),
           NMul(p[4], q[4])),
      NSub(NAdd(NAdd(NMul(p[1], q[2]), NMul(p[2], q[1])), NMul(p[3], q[4])),
           NMul(p[4], q[3])),
      NSub(NAdd(NAdd(NMul(p[1], q[3]), NMul(p[3], q[1])), NMul(p[4], q[2])),
           NMul(p[2], q[4])),
      NSub(NAdd(NAdd(NMul(p[1], q[4]), NMul(p[4], q[1])), NMul(p[2], q[3])),
           NMul(p[3], q[2]))>>

QDot(p, q) ==
    NAdd(NAdd(NAdd(NMul(p[1], q[1]), NMul(p[2], q[2])), NMul(p[3], q[3])),
         NMul(p[4], q[4]))

QConjugate(q) == <<q[1], NNeg(q[2]), NNeg(q[3]), NNeg(q[4])>>

\* glm::inverse(q) = conjugate(q) / dot(q, q)
QInverse(q) ==
    LET c == QConjugate(q)
        n == QDot(q, q)
    IN  <<NDiv(c[1], n), NDiv(c[2], n), NDiv(c[3], n), NDiv(c[4], n)>>

\* glm::quat operator*(q, v): v + ((uv * q.w) + uuv) * 2 with
\* uv = cross(q.xyz, v), uuv = cross(q.xyz, uv)
QRotate(q, v) ==
    LET qv  == <<q[2], q[3], q[4]>>
        uv  == Cross(qv, v)
        uuv == Cross(qv, uv)
    IN  VAdd(v, VScale(VAdd(VScale(uv, q[1]), uuv), Int2Num(2)))

\* Vectors::UNIT_X, UNIT_Y, UNIT_Z
UNIT_X == <<One, Zero, Zero>>

UNIT_Y == <<Zero, One, Zero>>

UNIT_Z == <<Zero, Zero, One>>

Vec3(x, y, z) == <<Int2Num(x), Int2Num(y), Int2Num(z)>>

\* PI and PI_OVER_TWO in units of PI/4
PI == 4

PI_OVER_TWO == 2

\* toGlm of an ovrQuatf and of an ovrVector3f (records of the SDK)
toGlmQuat(q) == <<q.w, q.x, q.y, q.z>>

toGlmVec(v) == <<v.x, v.y, v.z>>

\* the SDK's records, built from glm values to write the inputs down
OvrQuat(q) == [x |-> q[2], y |-> q[3], z |-> q[4], w |-> q[1]]

OvrVec(x, y, z) == [x |-> Int2Num(x), y |-> Int2Num(y), z |-> Int2Num(z)]

QIdentity == <<One, Zero, Zero, Zero>>

\* ------------------------------------------------------------------------
\* Bounds of the model
\* ------------------------------------------------------------------------

\* threads that call into the file
NumThreads == 2

\* calls of ovrControllerPoseToHandPose in one behaviour
MaxPoseCalls == 3

\* calls of acquireOculusSession and releaseOculusSession in one behaviour
MaxSessionCalls == 5

\* calls of Resize and destroyColor on the wrapper in one behaviour
MaxSwapCalls == 4

Threads == 1 .. NumThreads

\* nullptr; the handles the runtime hands out are 1, 2, ...
NULL == 0

\* ------------------------------------------------------------------------
\* The constants of ovrControllerPoseToHandPose (function-local statics)
\* ------------------------------------------------------------------------

yFlip == angleAxis(PI, UNIT_Y)

quarterX == angleAxis(PI_OVER_TWO, UNIT_X)

touchToHand == QMul(yFlip, quarterX)

\* leftQuarterZ with the sign of the right hand
leftQuarterZ_positive == angleAxis(PI_OVER_TWO, UNIT_Z)

leftQuarterZ == angleAxis(-PI_OVER_TWO, UNIT_Z)

rightQuarterZ == angleAxis(PI_OVER_TWO, UNIT_Z)

eighthX == angleAxis(PI \div 4, UNIT_X)

leftRotationOffset == QMul(QInverse(QMul(leftQuarterZ, eighthX)), touchToHand)

rightRotationOffset == QMul(QInverse(QMul(rightQuarterZ, eighthX)), touchToHand)

\* 0.0762f, three inches, in units of 1/10 mm
CONTROLLER_LENGTH_OFFSET == 762

\* CONTROLLER_OFFSET with the length halved along z as well
CONTROLLER_OFFSET_uniform ==
    <<NDiv(Int2Num(CONTROLLER_LENGTH_OFFSET), Int2Num(2)),
      NDiv(Int2Num(CONTROLLER_LENGTH_OFFSET), Int2Num(2)),
      NDiv(Int2Num(CONTROLLER_LENGTH_OFFSET), Int2Num(2))>>

CONTROLLER_OFFSET ==
    <<NDiv(Int2Num(CONTROLLER_LENGTH_OFFSET), Int2Num(2)),
      NDiv(Int2Num(CONTROLLER_LENGTH_OFFSET), Int2Num(2)),
      NMul(Int2Num(CONTROLLER_LENGTH_OFFSET), Int2Num(2))>>

\* leftTranslationOffset with x and y negated
leftTranslationOffset_twoNegated == VMul(Vec3(-1, -1, 1), CONTROLLER_OFFSET)

leftTranslationOffset == VMul(Vec3(-1, 1, 1), CONTROLLER_OFFSET)

rightTranslationOffset == CONTROLLER_OFFSET

QZero == <<Zero, Zero, Zero, Zero>>

VZero == <<Zero, Zero, Zero>>

\* the statics' storage before the first call passes their declarations
\* (zero-initialised) and after it
StaticsZero ==
    [guard |-> FALSE,
     leftRotationOffset |-> QZero, rightRotationOffset |-> QZero,
     leftTranslationOffset |-> VZero, rightTranslationOffset |-> VZero]

StaticsInitialised ==
    [guard |-> TRUE,
     leftRotationOffset |-> leftRotationOffset,
     rightRotationOffset |-> rightRotationOffset,
     leftTranslationOffset |-> leftTranslationOffset,
     rightTranslationOffset |-> rightTranslationOffset]

Hands == {"ovrHand_Left", "ovrHand_Right"}

\* ovrPoseStatef values the runtime may report
RawPose(q, px, py, pz, av, lv) ==
    [ThePose |-> [Orientation |-> OvrQuat(q), Position |-> OvrVec(px, py, pz)],
     AngularVelocity |-> av, LinearVelocity |-> lv]

RawPoses ==
    {RawPose(QIdentity, 0, 0, 0, OvrVec(0, 0, 0), OvrVec(1, 0, 0)),
     RawPose(angleAxis(2, UNIT_Y), 1000, 2000, -3000, OvrVec(0, 0, 7), OvrVec(0, 5, 0)),
     RawPose(QMul(angleAxis(3, UNIT_Z), angleAxis(-1, UNIT_Y)), 10, 20, 30,
             OvrVec(-1, 2, 0), OvrVec(9, 0, -9))}

NoPose == [valid |-> FALSE]

\* the body with line 276 as rotationOffset * rotation
ovrControllerPoseToHandPose_swappedFactors(st, hand, handPose) ==
    LET translationOffset == IF hand = "ovrHand_Left" THEN st.leftTranslationOffset
                             ELSE st.rightTranslationOffset
        rotationOffset == IF hand = "ovrHand_Left" THEN st.leftRotationOffset
                          ELSE st.rightRotationOffset
        rotation == toGlmQuat(handPose.ThePose.Orientation)
    IN  [translation |-> VAdd(toGlmVec(handPose.ThePose.Position),
                              QRotate(rotation, translationOffset)),
         rotation |-> QMul(rotationOffset, rotation),
         angularVelocity |-> toGlmVec(handPose.AngularVelocity),
         velocity |-> toGlmVec(handPose.LinearVelocity),
         valid |-> TRUE]

\* the body with the right-hand sides of lines 277 and 278 exchanged
ovrControllerPoseToHandPose_swappedVelocities(st, hand, handPose) ==
    LET translationOffset == IF hand = "ovrHand_Left" THEN st.leftTranslationOffset
                             ELSE st.rightTranslationOffset
        rotationOffset == IF hand = "ovrHand_Left" THEN st.leftRotationOffset
                          ELSE st.rightRotationOffset
        rotation == toGlmQuat(handPose.ThePose.Orientation)
    IN  [translation |-> VAdd(toGlmVec(handPose.ThePose.Position),
                              QRotate(rotation, translationOffset)),
         rotation |-> QMul(rotation, rotationOffset),
         angularVelocity |-> toGlmVec(handPose.LinearVelocity),
         velocity |-> toGlmVec(handPose.AngularVelocity),
         valid |-> TRUE]

\* the body of ovrControllerPoseToHandPose, lines 268-279, over the statics st
ovrControllerPoseToHandPose(st, hand, handPose) ==
    LET translationOffset == IF hand = "ovrHand_Left" THEN st.leftTranslationOffset
                             ELSE st.rightTranslationOffset
        rotationOffset == IF hand = "ovrHand_Left" THEN st.leftRotationOffset
                          ELSE st.rightRotationOffset
        rotation == toGlmQuat(handPose.ThePose.Orientation)
    IN  [translation |-> VAdd(toGlmVec(handPose.ThePose.Position),
                              QRotate(rotation, translationOffset)),
         rotation |-> QMul(rotation, rotationOffset),
         angularVelocity |-> toGlmVec(handPose.AngularVelocity),
         velocity |-> toGlmVec(handPose.LinearVelocity),
         valid |-> TRUE]

\* the function's values over the initialised statics
PoseTable ==
    [h \in Hands, r \in RawPoses |->
        ovrControllerPoseToHandPose(StaticsInitialised, h, r)]

\* `pose` declared static: one object shared by every call
PoseSlot_static(t) == 1

\* where a call's `controller::Pose pose` (line 273) lives: an automatic
\* local, one per call (a thread runs one call at a time)

PoseSlot(t) == t

\* ------------------------------------------------------------------------
\* State
\* ------------------------------------------------------------------------

VARIABLES
    \* ovrControllerPoseToHandPose
    statics,        \* the function-local statics and their guard
    ppc,            \* each thread's position in the function
    phand,          \* each call's argument hand
    praw,           \* each call's argument handPose
    pose,           \* the storage of the local `pose`, by slot
    poseLog,        \* history: the calls that returned, <<hand, raw, pose>>
    nPose,          \* history: calls made
    \* the session
    refCount,       \* static std::atomic<uint32_t> refCount
    session,        \* static ovrSession session
    once,           \* oculusAvailable's once_flag and result
    spc,            \* each thread's position in acquireOculusSession
    sessionLog,     \* history: the calls that returned, with acquire's value
    nInitialize,    \* history: calls of ovr_Initialize
    nCreate,        \* history: calls of ovr_Create
    nCreated,       \* history: sessions ovr_Create handed out
    nDestroy,       \* history: calls of ovr_Destroy
    nShutdown,      \* history: calls of ovr_Shutdown
    assertFailed,   \* history: the Q_ASSERTs whose condition was false
    nSession,       \* history: calls of acquire and release begun
    \* SwapFramebufferWrapper
    color,          \* the member color
    size,           \* the member size
    chains,         \* history: per swap chain created, how often destroyed
    wstate,         \* the wrapper: "constructed", "destructed", "aborted"
    nSwap           \* history: calls made on the wrapper

poseVars == <<statics, ppc, phand, praw, pose, poseLog, nPose>>

sessionVars == <<refCount, session, once, spc, sessionLog, nInitialize, nCreate,
                 nCreated, nDestroy, nShutdown, assertFailed, nSession>>

swapVars == <<color, size, chains, wstate, nSwap>>

vars == <<poseVars, sessionVars, swapVars>>

Init ==
    /\ statics = StaticsZero
    /\ ppc = [t \in Threads |-> "idle"]
    /\ phand = [t \in Threads |-> "none"]
    /\ praw = [t \in Threads |-> "none"]
    /\ pose = [t \in Threads |-> NoPose]
    /\ poseLog = <<>>
    /\ nPose = 0
    /\ refCount = 0
    /\ session = NULL
    /\ once = [called |-> FALSE, result |-> FALSE]
    /\ spc = [t \in Threads |-> "idle"]
    /\ sessionLog = <<>>
    /\ nInitialize = 0
    /\ nCreate = 0
    /\ nCreated = 0
    /\ nDestroy = 0
    /\ nShutdown = 0
    /\ assertFailed = {}
    /\ nSession = 0
    /\ color = NULL
    /\ size = <<0, 0>>
    /\ chains = <<>>
    /\ wstate = "constructed"
    /\ nSwap = 0

\* ------------------------------------------------------------------------
\* ovrControllerPoseToHandPose, lines 199-281
\* ------------------------------------------------------------------------

\* a thread calls the function with a hand and a raw pose and passes the
\* declarations of the statics, lines 250-266: the first call to pass
\* initialises them, under the language's guard for function-local statics;
\* every later call finds them initialised
PoseCall(t) ==
    /\ ppc[t] = "idle"
    /\ nPose < MaxPoseCalls
    /\ \E hand \in Hands, handPose \in RawPoses :
          /\ phand' = [phand EXCEPT ![t] = hand]
          /\ praw' = [praw EXCEPT ![t] = handPose]
    /\ statics' = IF statics.guard THEN statics ELSE StaticsInitialised
    /\ ppc' = [ppc EXCEPT ![t] = "body"]
    /\ nPose' = nPose + 1
    /\ UNCHANGED <<pose, poseLog>>
    /\ UNCHANGED <<sessionVars, swapVars>>

\* lines 268-279: the local pose is filled in.  (PoseTable holds the
\* function's values over the initialised statics, computed once.)
PoseBody(t) ==
    /\ ppc[t] = "body"
    /\ pose' = [pose EXCEPT ![PoseSlot(t)] =
                   IF statics = StaticsInitialised
                   THEN PoseTable[phand[t], praw[t]]
                   ELSE ovrControllerPoseToHandPose(statics, phand[t], praw[t])]
    /\ ppc' = [ppc EXCEPT ![t] = "return"]
    /\ UNCHANGED <<statics, phand, praw, poseLog, nPose>>
    /\ UNCHANGED <<sessionVars, swapVars>>

\* line 280: return pose
PoseReturn(t) ==
    /\ ppc[t] = "return"
    /\ poseLog' = Append(poseLog, [hand |-> phand[t], raw |-> praw[t],
                                   pose |-> pose[PoseSlot(t)]])
    /\ ppc' = [ppc EXCEPT ![t] = "idle"]
    /\ phand' = [phand EXCEPT ![t] = "none"]
    /\ praw' = [praw EXCEPT ![t] = "none"]
    /\ UNCHANGED <<statics, pose, nPose>>
    /\ UNCHANGED <<sessionVars, swapVars>>

PoseNext ==
    \E t \in Threads :
        \/ PoseCall(t)
        \/ PoseBody(t)
        \/ PoseReturn(t)

SpecPose == Init /\ [][PoseNext]_vars

\* ------------------------------------------------------------------------
\* acquireOculusSession and releaseOculusSession, lines 52-108
\* ------------------------------------------------------------------------

\* oculusAvailable(), lines 52-70: the first call detects the runtime, the
\* HMD and the DLL (any outcome) under call_once; every call returns the
\* result the first one stored.  The outcomes: the flag after, the value.
oculusAvailable(flag) ==
    IF flag.called
    THEN {[once |-> flag, result |-> flag.result]}
    ELSE {[once |-> [called |-> TRUE, result |-> r], result |-> r] : r \in BOOLEAN}

\* a thread calls acquireOculusSession
AcquireCall(t) ==
    /\ spc[t] = "idle"
    /\ nSession < MaxSessionCalls
    /\ spc' = [spc EXCEPT ![t] = "L73"]
    /\ nSession' = nSession + 1
    /\ UNCHANGED <<refCount, session, once, sessionLog, nInitialize, nCreate,
                   nCreated, nDestroy, nShutdown, assertFailed>>
    /\ UNCHANGED <<poseVars, swapVars>>

\* line 73: if (!session && !oculusAvailable())
AcquireCheckRuntime(t) ==
    /\ spc[t] = "L73"
    /\ IF session # NULL
       THEN /\ spc' = [spc EXCEPT ![t] = "L78"]
            /\ once' = once
       ELSE \E o \in oculusAvailable(once) :
               /\ once' = o.once
               /\ spc' = [spc EXCEPT ![t] = IF o.result THEN "L78" ELSE "L75"]
    /\ UNCHANGED <<refCount, session, sessionLog, nInitialize, nCreate, nCreated,
                   nDestroy, nShutdown, assertFailed, nSession>>
    /\ UNCHANGED <<poseVars, swapVars>>

\* line 78: if (!session)
AcquireCheckSession(t) ==
    /\ spc[t] = "L78"
    /\ spc' = [spc EXCEPT ![t] = IF session # NULL THEN "L92" ELSE "L79"]
    /\ UNCHANGED <<refCount, session, once, sessionLog, nInitialize, nCreate,
                   nCreated, nDestroy, nShutdown, assertFailed, nSession>>
    /\ UNCHANGED <<poseVars, swapVars>>

\* line 79: ovr_Initialize(nullptr) succeeds or fails
AcquireInitialize(t) ==
    /\ spc[t] = "L79"
    /\ nInitialize' = nInitialize + 1
    /\ \E ok \in BOOLEAN :
          spc' = [spc EXCEPT ![t] = IF ok THEN "L84" ELSE "L81"]
    /\ UNCHANGED <<refCount, session, once, sessionLog, nCreate, nCreated,
                   nDestroy, nShutdown, assertFailed, nSession>>
    /\ UNCHANGED <<poseVars, swapVars>>

\* line 84: Q_ASSERT(0 == refCount); a false condition is recorded (a build
\* without assertions goes on, a build with them stops here)
AcquireAssert(t) ==
    /\ spc[t] = "L84"
    /\ assertFailed' = IF 0 = refCount THEN assertFailed
                       ELSE assertFailed \cup {"acquire"}
    /\ spc' = [spc EXCEPT ![t] = "L86"]
    /\ UNCHANGED <<refCount, session, once, sessionLog, nInitialize, nCreate,
                   nCreated, nDestroy, nShutdown, nSession>>
    /\ UNCHANGED <<poseVars, swapVars>>

\* line 86 without the return of line 88: a failed ovr_Create goes on to
\* line 92
AcquireCreate_fallsThrough(t) ==
    /\ spc[t] = "L86"
    /\ nCreate' = nCreate + 1
    /\ \E ok \in BOOLEAN :
          IF ok
          THEN /\ nCreated' = nCreated + 1
               /\ session' = nCreated + 1
               /\ spc' = [spc EXCEPT ![t] = "L92"]
          ELSE /\ nCreated' = nCreated
               /\ session' \in {session, NULL}
               /\ spc' = [spc EXCEPT ![t] = "L92"]
    /\ UNCHANGED <<refCount, once, sessionLog, nInitialize, nDestroy, nShutdown,
                   assertFailed, nSession>>
    /\ UNCHANGED <<poseVars, swapVars>>

\* line 86: ovr_Create(&session, &luid).  Success stores a new session's
\* handle.  Failure leaves the out parameter as it was or clears it (the
\* runtime decides).
AcquireCreate(t) ==
    /\ spc[t] = "L86"
    /\ nCreate' = nCreate + 1
    /\ \E ok \in BOOLEAN :
          IF ok
          THEN /\ nCreated' = nCreated + 1
               /\ session' = nCreated + 1
               /\ spc' = [spc EXCEPT ![t] = "L92"]
          ELSE /\ nCreated' = nCreated
               /\ session' \in {session, NULL}
               /\ spc' = [spc EXCEPT ![t] = "L88"]
    /\ UNCHANGED <<refCount, once, sessionLog, nInitialize, nDestroy, nShutdown,
                   assertFailed, nSession>>
    /\ UNCHANGED <<poseVars, swapVars>>

\* line 92: ++refCount (atomic; MaxSessionCalls keeps it far from 2^32)
AcquireIncrement(t) ==
    /\ spc[t] = "L92"
    /\ refCount' = refCount + 1
    /\ spc' = [spc EXCEPT ![t] = "L93"]
    /\ UNCHANGED <<session, once, sessionLog, nInitialize, nCreate, nCreated,
                   nDestroy, nShutdown, assertFailed, nSession>>
    /\ UNCHANGED <<poseVars, swapVars>>

\* lines 75, 81, 88, 93: return session
AcquireReturn(t) ==
    /\ spc[t] \in {"L75", "L81", "L88", "L93"}
    /\ sessionLog' = Append(sessionLog, [op |-> "acquire", ret |-> session])
    /\ spc' = [spc EXCEPT ![t] = "idle"]
    /\ UNCHANGED <<refCount, session, once, nInitialize, nCreate, nCreated,
                   nDestroy, nShutdown, assertFailed, nSession>>
    /\ UNCHANGED <<poseVars, swapVars>>

\* releaseOculusSession, lines 96-108, as it would be with the block under
\* `#if 0` compiled in
releaseOculusSession_tearsDown(t) ==
    /\ spc[t] = "idle"
    /\ nSession < MaxSessionCalls
    /\ assertFailed' = IF refCount > 0 /\ session # NULL THEN assertFailed
                       ELSE assertFailed \cup {"release"}
    /\ refCount' = IF refCount > 0 THEN refCount - 1 ELSE refCount
    /\ IF refCount' = 0
       THEN /\ nDestroy' = nDestroy + 1
            /\ nShutdown' = nShutdown + 1
            /\ session' = NULL
       ELSE UNCHANGED <<nDestroy, nShutdown, session>>
    /\ sessionLog' = Append(sessionLog, [op |-> "release", ret |-> NULL])
    /\ nSession' = nSession + 1
    /\ UNCHANGED <<once, spc, nInitialize, nCreate, nCreated>>
    /\ UNCHANGED <<poseVars, swapVars>>

\* releaseOculusSession, lines 96-108: the Q_ASSERT and nothing else (the
\* block under `#if 0` is not compiled)
releaseOculusSession(t) ==
    /\ spc[t] = "idle"
    /\ nSession < MaxSessionCalls
    /\ assertFailed' = IF refCount > 0 /\ session # NULL THEN assertFailed
                       ELSE assertFailed \cup {"release"}
    /\ sessionLog' = Append(sessionLog, [op |-> "release", ret |-> NULL])
    /\ nSession' = nSession + 1
    /\ UNCHANGED <<refCount, session, once, spc, nInitialize, nCreate, nCreated,
                   nDestroy, nShutdown>>
    /\ UNCHANGED <<poseVars, swapVars>>

\* threads calling at any time
SessionNext ==
    \E t \in Threads :
        \/ AcquireCall(t)
        \/ AcquireCheckRuntime(t)
        \/ AcquireCheckSession(t)
        \/ AcquireInitialize(t)
        \/ AcquireAssert(t)
        \/ AcquireCreate(t)
        \/ AcquireIncrement(t)
        \/ AcquireReturn(t)
        \/ releaseOculusSession(t)

SpecConcurrent == Init /\ [][SessionNext]_vars

\* one call at a time: a call begins only when no call is running
NoCallRunning == \A u \in Threads : spc[u] = "idle"

SeqAcquireCall(t) == NoCallRunning /\ AcquireCall(t)

SeqRelease(t) == NoCallRunning /\ releaseOculusSession(t)

SeqSessionNext ==
    \E t \in Threads :
        \/ SeqAcquireCall(t)
        \/ AcquireCheckRuntime(t)
        \/ AcquireCheckSession(t)
        \/ AcquireInitialize(t)
        \/ AcquireAssert(t)
        \/ AcquireCreate(t)
        \/ AcquireIncrement(t)
        \/ AcquireReturn(t)
        \/ SeqRelease(t)

SpecSession == Init /\ [][SeqSessionNext]_vars

\* ------------------------------------------------------------------------
\* SwapFramebufferWrapper, lines 117-181
\* ------------------------------------------------------------------------

\* sizes Resize is called with
Sizes == {<<1, 1>>, <<2, 1>>, <<2, 2>>}

\* the wrapper's color and the runtime's swap chains, as one value w
\* destroyColor(), lines 141-146
destroyColor(w) ==
    IF w.color # NULL
    THEN [color |-> NULL, chains |-> [w.chains EXCEPT ![w.color] = @ + 1]]
    ELSE w

\* initColor() up to line 164, without the destroyColor() of line 149
initColor_leaks(w, created) ==
    IF created
    THEN [color |-> Len(w.chains) + 1, chains |-> Append(w.chains, 0)]
    ELSE w

\* initColor() up to line 164: destroyColor(), then
\* ovr_CreateTextureSwapChainGL(_session, &desc, &color), which on success
\* stores a new chain's handle
initColor(w, created) ==
    LET d == destroyColor(w)
    IN  IF created
        THEN [color |-> Len(d.chains) + 1, chains |-> Append(d.chains, 0)]
        ELSE d

\* Resize(size), lines 132-139, with initColor() to its end: a failed
\* creation (logFatal, line 163) or a failed or zero length (qFatal, line
\* 169) ends the process
Resize(sz) ==
    /\ wstate = "constructed"
    /\ nSwap < MaxSwapCalls
    /\ size' = sz
    /\ \E created \in BOOLEAN, counted \in BOOLEAN :
          LET w == initColor([color |-> color, chains |-> chains], created)
          IN  /\ color' = w.color
              /\ chains' = w.chains
              /\ wstate' = IF created /\ counted THEN "constructed" ELSE "aborted"
    /\ nSwap' = nSwap + 1
    /\ UNCHANGED <<poseVars, sessionVars>>

\* a call of destroyColor(), lines 141-146
DestroyColor ==
    /\ wstate = "constructed"
    /\ nSwap < MaxSwapCalls
    /\ LET w == destroyColor([color |-> color, chains |-> chains])
       IN  /\ color' = w.color
           /\ chains' = w.chains
    /\ nSwap' = nSwap + 1
    /\ UNCHANGED <<size, wstate>>
    /\ UNCHANGED <<poseVars, sessionVars>>

\* ~SwapFramebufferWrapper(), lines 123-125
Destructor ==
    /\ wstate = "constructed"
    /\ LET w == destroyColor([color |-> color, chains |-> chains])
       IN  /\ color' = w.color
           /\ chains' = w.chains
    /\ wstate' = "destructed"
    /\ UNCHANGED <<size, nSwap>>
    /\ UNCHANGED <<poseVars, sessionVars>>

SwapNext ==
    \/ \E sz \in Sizes : Resize(sz)
    \/ DestroyColor
    \/ Destructor

SpecSwap == Init /\ [][SwapNext]_vars

\* ------------------------------------------------------------------------
\* The whole file: the three parts share no state
\* ------------------------------------------------------------------------

Next == PoseNext \/ SessionNext \/ SwapNext

Spec == Init /\ [][Next]_vars

\* ------------------------------------------------------------------------
\* Properties of ovrControllerPoseToHandPose
\* ------------------------------------------------------------------------

\* a unit quaternion q applied to the vector v: the vector part of
\* q * (0, v) * conjugate(q)
Apply(q, v) ==
    LET r == QMul(QMul(q, <<Zero, v[1], v[2], v[3]>>), QConjugate(q))
    IN  <<r[2], r[3], r[4]>>

RawOrientation(r) ==
    LET o == r.ThePose.Orientation IN <<o.w, o.x, o.y, o.z>>

RawPosition(r) ==
    LET p == r.ThePose.Position IN <<p.x, p.y, p.z>>

\* what C1 says the function returns, over the constants of the hand h
ComposedPose ==
    [h \in Hands, r \in RawPoses |->
        LET left == h = "ovrHand_Left"
        IN  [rotation |-> QMul(RawOrientation(r),
                               IF left THEN leftRotationOffset
                               ELSE rightRotationOffset),
             translation |-> VAdd(RawPosition(r),
                                  Apply(RawOrientation(r),
                                        IF left THEN leftTranslationOffset
                                        ELSE rightTranslationOffset))]]

Returned == {poseLog[i] : i \in 1 .. Len(poseLog)}

\* C1: every pose returned has rotation = rawOrientation * rotationOffset(hand)
\* (the raw orientation the left factor) and translation = rawPosition +
\* rawOrientation applied to translationOffset(hand), the offsets being the
\* constants of the hand that was passed.
C1_ComposedWithHandOffset ==
    \A e \in Returned :
        /\ e.pose.rotation = ComposedPose[e.hand, e.raw].rotation
        /\ e.pose.translation = ComposedPose[e.hand, e.raw].translation

\* both hands have been converted, from raw orientations that are not the
\* identity and that differ
C1_Witness ==
    \E e, f \in Returned :
        /\ e.hand = "ovrHand_Left" /\ f.hand = "ovrHand_Right"
        /\ RawOrientation(e.raw) # QIdentity
        /\ RawOrientation(f.raw) # QIdentity
        /\ e.raw # f.raw

\* the translation offsets in metres/10000, as the claims state them
LengthL == Int2Num(CONTROLLER_LENGTH_OFFSET)

HalfL == NDiv(LengthL, Int2Num(2))

AbsEq(a, m) == a = m \/ a = NNeg(m)

\* C2 as stated: the offset has magnitude L along the length axis (z) and L/2
\* along the two lateral axes (x, y), and the left offset negates both lateral
\* components and keeps the length component.
C2_AsStated ==
    statics.guard =>
        LET r == statics.rightTranslationOffset
            l == statics.leftTranslationOffset
        IN  /\ AbsEq(r[3], LengthL)
            /\ AbsEq(r[1], HalfL) /\ AbsEq(r[2], HalfL)
            /\ l = <<NNeg(r[1]), NNeg(r[2]), r[3]>>

\* C2 amended: the offset has magnitude 2L = 0.1524 m along the length axis
\* (z) and L/2 along the two lateral axes, and the left offset negates only
\* the x component.
C2_Amended ==
    statics.guard =>
        LET r == statics.rightTranslationOffset
            l == statics.leftTranslationOffset
        IN  /\ AbsEq(r[3], NAdd(LengthL, LengthL))
            /\ AbsEq(r[1], HalfL) /\ AbsEq(r[2], HalfL)
            /\ l = <<NNeg(r[1]), r[2], r[3]>>

\* the constants are initialised and a left hand pose was returned with them
C2_Witness ==
    /\ statics.guard
    /\ \E e \in Returned : e.hand = "ovrHand_Left" /\ RawOrientation(e.raw) = QIdentity

\* C3: the left translation offset is the right one with exactly its first
\* component negated (and that component is not zero).
C3_TranslationMirror ==
    statics.guard =>
        LET r == statics.rightTranslationOffset
            l == statics.leftTranslationOffset
        IN  /\ l[1] = NNeg(r[1]) /\ l[2] = r[2] /\ l[3] = r[3]
            /\ r[1] # Zero /\ r[2] # Zero

\* both hands were converted from the same raw pose with the constants
C3_Witness ==
    /\ statics.guard
    /\ \E e, f \in Returned :
          e.hand = "ovrHand_Left" /\ f.hand = "ovrHand_Right" /\ e.raw = f.raw

\* the rotations of C4, written from the claim: angles in units of PI/4
HalfTurnY == angleAxis(4, UNIT_Y)

QuarterTurnX == angleAxis(2, UNIT_X)

EighthTurnX == angleAxis(1, UNIT_X)

\* inverse(mount) * touchToHand, the inverse of a unit quaternion being its
\* conjugate; Zero-filled if mount is not one
OffsetFor(mount) ==
    IF QMul(mount, QConjugate(mount)) = QIdentity
    THEN QMul(QConjugate(mount), QMul(HalfTurnY, QuarterTurnX))
    ELSE QZero

OffsetsAboutY ==
    [left |-> OffsetFor(QMul(angleAxis(-2, UNIT_Y), EighthTurnX)),
     right |-> OffsetFor(QMul(angleAxis(2, UNIT_Y), EighthTurnX))]

OffsetsAboutZ ==
    [left |-> OffsetFor(QMul(angleAxis(-2, UNIT_Z), EighthTurnX)),
     right |-> OffsetFor(QMul(angleAxis(2, UNIT_Z), EighthTurnX))]

\* C4 as stated: the mount offset turns about the vertical (Y) axis, by -90
\* degrees for the left hand and +90 degrees for the right.
C4_AsStated ==
    statics.guard =>
        /\ statics.leftRotationOffset = OffsetsAboutY.left
        /\ statics.rightRotationOffset = OffsetsAboutY.right

\* C4 amended: the mount offset turns about the Z axis, by -90 degrees for
\* the left hand and +90 degrees for the right, composed with 45 degrees
\* about X; each rotation offset is inverse(mount offset) * touchToHand.
C4_Amended ==
    statics.guard =>
        /\ statics.leftRotationOffset = OffsetsAboutZ.left
        /\ statics.rightRotationOffset = OffsetsAboutZ.right
        /\ OffsetsAboutZ.left # OffsetsAboutZ.right
        /\ OffsetsAboutZ.left # QZero /\ OffsetsAboutZ.right # QZero

\* the constants are initialised and both hands' rotation offsets were
\* returned as the rotation of an identity raw orientation
C4_Witness ==
    /\ statics.guard
    /\ \E e, f \in Returned :
          /\ e.hand = "ovrHand_Left" /\ f.hand = "ovrHand_Right"
          /\ RawOrientation(e.raw) = QIdentity /\ RawOrientation(f.raw) = QIdentity
          /\ e.pose.rotation = statics.leftRotationOffset
          /\ f.pose.rotation = statics.rightRotationOffset

\* C5: every pose returned carries the raw pose's linear velocity as its
\* velocity and the raw pose's angular velocity as its angular velocity,
\* component by component.
C5_VelocitiesPassThrough ==
    \A e \in Returned :
        LET lv == e.raw.LinearVelocity
            av == e.raw.AngularVelocity
        IN  /\ e.pose.velocity = <<lv.x, lv.y, lv.z>>
            /\ e.pose.angularVelocity = <<av.x, av.y, av.z>>

\* a pose was returned for a rotated, displaced raw pose whose two
\* velocities differ, for each hand
C5_Witness ==
    \E e, f \in Returned :
        /\ e.hand # f.hand
        /\ e.raw.LinearVelocity # e.raw.AngularVelocity
        /\ RawOrientation(e.raw) # QIdentity
        /\ RawPosition(e.raw) # VZero

\* C6: two calls with the same hand and raw pose returned the same pose,
\* whatever calls ran before, between or beside them, and the only state a
\* call leaves behind is the constants, initialised once.
C6_SameInputSamePose ==
    /\ \A e, f \in Returned :
          (e.hand = f.hand /\ e.raw = f.raw) => e.pose = f.pose
    /\ statics \in {StaticsZero, StaticsInitialised}
    /\ statics.guard => statics = StaticsInitialised

\* the same input was converted twice with a call of the other hand and
\* another raw pose returning in between
C6_Witness ==
    /\ Len(poseLog) >= 3
    /\ poseLog[1].hand = poseLog[3].hand /\ poseLog[1].raw = poseLog[3].raw
    /\ poseLog[2].hand # poseLog[1].hand /\ poseLog[2].raw # poseLog[1].raw

\* ------------------------------------------------------------------------
\* Properties of the session
\* ------------------------------------------------------------------------

\* the values acquireOculusSession returned that are sessions
SessionsReturned ==
    {sessionLog[i].ret : i \in {j \in 1 .. Len(sessionLog) :
                                   sessionLog[j].op = "acquire" /\ sessionLog[j].ret # NULL}}

\* how many calls of acquireOculusSession returned a session
AcquiredCount ==
    Cardinality({j \in 1 .. Len(sessionLog) :
                    sessionLog[j].op = "acquire" /\ sessionLog[j].ret # NULL})

\* C7: once acquireOculusSession has returned a session, no step of any later
\* acquire or release changes the global session or calls ovr_Destroy,
\* ovr_Shutdown, ovr_Initialize or ovr_Create, and every later acquire
\* returns that same session.
C7_NeverTornDown ==
    [][SessionsReturned # {} =>
          /\ session # NULL
          /\ session' = session
          /\ nDestroy' = nDestroy /\ nShutdown' = nShutdown
          /\ nInitialize' = nInitialize /\ nCreate' = nCreate
          /\ SessionsReturned' = {session}]_vars

\* a session was acquired, released twice (more often than acquired) and
\* acquired again
C7_Witness ==
    \E i, j, k, l \in 1 .. Len(sessionLog) :
        /\ i < j /\ j < k /\ k < l
        /\ sessionLog[i].op = "acquire" /\ sessionLog[i].ret # NULL
        /\ sessionLog[j].op = "release" /\ sessionLog[k].op = "release"
        /\ sessionLog[l].op = "acquire" /\ sessionLog[l].ret # NULL
        /\ \A m \in 1 .. Len(sessionLog) : sessionLog[m].op = "acquire" => m \in {i, l}

\* C8: between calls made one at a time, refCount is the number of acquires
\* that returned a session (so a failed acquire, which returns null, and a
\* release leave it unchanged), refCount > 0 exactly when session is not
\* null, and the assertion 0 == refCount before ovr_Create has never failed.
C8_RefCountCountsAcquires ==
    /\ "acquire" \notin assertFailed
    /\ NoCallRunning =>
          /\ refCount = AcquiredCount
          /\ (refCount > 0) <=> (session # NULL)

\* acquires failed (for lack of a runtime or by a failing SDK call), then
\* two succeeded, with a release in between
C8_Witness ==
    /\ NoCallRunning
    /\ refCount = 2
    /\ \E i, j, k \in 1 .. Len(sessionLog) :
          /\ i < j /\ j < k
          /\ sessionLog[i].op = "acquire" /\ sessionLog[i].ret = NULL
          /\ sessionLog[j].op = "release"
          /\ sessionLog[k].op = "acquire" /\ sessionLog[k].ret # NULL
    /\ nCreate > nCreated

\* C9: with threads calling acquireOculusSession at any time, as long as no
\* ovr_Create call has failed ovr_Create has been called at most once, the
\* assertion 0 == refCount has never failed, and all acquires that returned
\* a session returned the same one.
C9_CreatedOnce ==
    /\ nCreate = nCreated => nCreate <= 1
    /\ "acquire" \notin assertFailed
    /\ Cardinality(SessionsReturned) <= 1

\* ------------------------------------------------------------------------
\* Properties of SwapFramebufferWrapper
\* ------------------------------------------------------------------------

\* the swap chains created and not destroyed
Live == {c \in 1 .. Len(chains) : chains[c] = 0}

\* C10: at most one swap chain the wrapper created is live, color is not null
\* exactly when one is (and is that one), no chain is destroyed twice, and
\* after the destructor every chain created has been destroyed exactly once.
C10_OneLiveChain ==
    /\ Cardinality(Live) <= 1
    /\ color # NULL <=> Live # {}
    /\ color # NULL => color \in Live
    /\ \A c \in 1 .. Len(chains) : chains[c] <= 1
    /\ wstate = "destructed" => \A c \in 1 .. Len(chains) : chains[c] = 1

\* the wrapper was resized more than once, with a destroyColor call, and
\* then destructed
C10_Witness ==
    /\ wstate = "destructed"
    /\ Len(chains) >= 2
    /\ nSwap > Len(chains)

====
